---- MODULE Spec2Model ----
(***************************************************************************)
(* Model of the README generator's request pipeline                        *)
(* (server/routes/generate-readme.ts, kept in src/unnamed/part_000).       *)
(*                                                                         *)
(* Four specifications share the variables:  Spec is one request through   *)
(* the Express route, HandlerSpec one request through the Netlify          *)
(* function, TreeSpec the path tree from the provider's body to the        *)
(* prompt, on bodies long enough to reach the two caps.  UiSpec is the     *)
(* page (client/pages/Index.tsx) through any number of submissions.        *)
(*                                                                         *)
(* A JavaScript string is a sequence of tokens.  A token is one character  *)
(* (" ", "x", "a", "/", "#", ",") or one literal the code itself tests or  *)
(* emits as a unit (the fence marker, "Not specified.", the host prefix,   *)
(* the headings).  trim, includes, split, join and the regular expression are  *)
(* computed on these sequences the way the code computes them on           *)
(* characters.  A JavaScript value is a tagged record, so that a value of  *)
(* the wrong type (a number where a string is expected) can be told apart  *)
(* and a method call on it throws.                                         *)
(***************************************************************************)
EXTENDS Integers, Sequences, FiniteSets, TLC

\* ------------------------------------------------------------------------
\* Bounds of the model
\* ------------------------------------------------------------------------

\* Longest list the upstream services return (languages, tree entries,
\* feature bullets).
MaxList == 1

\* Largest number of the four recognised keys a generative reply object holds.
MaxKeys == 1

\* ------------------------------------------------------------------------
\* JavaScript values
\* ------------------------------------------------------------------------

Undefined == [t |-> "undefined"]

Null == [t |-> "null"]

Num(n) == [t |-> "num", v |-> n]

Str(s) == [t |-> "str", v |-> s]

Arr(a) == [t |-> "arr", v |-> a]

IsStr(v) == v.t = "str"

IsNullish(v) == v.t \in {"undefined", "null"}

\* JavaScript truthiness (!v, v || w, if (v)).
Truthy(v) ==
  CASE v.t = "undefined" -> FALSE
    [] v.t = "null" -> FALSE
    [] v.t = "num" -> v.v # 0
    [] v.t = "str" -> v.v # <<>>
    [] OTHER -> TRUE

\* a ?? b
Coalesce(a, b) == IF IsNullish(a) THEN b ELSE a

\* a || b
OrElse(a, b) == IF Truthy(a) THEN a ELSE b

\* ------------------------------------------------------------------------
\* Strings as token sequences
\* ------------------------------------------------------------------------

WS == " "

NL == "\n"

\* The markdown fence marker (three backquotes), written with quotes here.
FENCE == "'''"

NOT_SPECIFIED == "Not specified."

\* Number of characters a token stands for.
TokLen(c) ==
  CASE c = FENCE -> 3
    [] c = NOT_SPECIFIED -> 14
    [] c = "https://github.com/" -> 19
    [] c = "A widget." -> 9
    [] OTHER -> 1

RECURSIVE StrLen(_)
StrLen(s) == IF s = <<>> THEN 0 ELSE TokLen(Head(s)) + StrLen(Tail(s))

IsSpace(c) == c \in {WS, NL}

RECURSIVE TrimStart(_)
TrimStart(s) ==
  IF s # <<>> /\ IsSpace(Head(s)) THEN TrimStart(Tail(s)) ELSE s

RECURSIVE TrimEnd(_)
TrimEnd(s) ==
  IF s # <<>> /\ IsSpace(s[Len(s)]) THEN TrimEnd(SubSeq(s, 1, Len(s) - 1)) ELSE s

\* String.prototype.trim
Trim(s) == TrimEnd(TrimStart(s))

\* String.prototype.includes for a one-token needle
Includes(s, c) == \E i \in 1..Len(s) : s[i] = c

\* Array.prototype.slice(0, n)
Take(s, n) == SubSeq(s, 1, IF Len(s) < n THEN Len(s) ELSE n)

\* Array.prototype.join
RECURSIVE Join(_, _)
Join(parts, sep) ==
  IF parts = <<>> THEN <<>>
  ELSE IF Len(parts) = 1 THEN parts[1]
  ELSE parts[1] \o sep \o Join(Tail(parts), sep)

\* Sequences over S of length at most n.
SeqsUpTo(S, n) == UNION {[1..k -> S] : k \in 0..n}

\* ------------------------------------------------------------------------
\* Reference parser
\* ------------------------------------------------------------------------

GITHUB_PREFIX == "https://github.com/"

\* [A-Za-z0-9_.-]
IdentChars == {"a", "b", "."}

\* "." of the regular expression: any character but a line terminator.
IsDot(c) == c # NL

\* (?:\/?|#.?)?$ matched against the whole rest of the input
MatchesSuffix(rest) ==
  \/ rest = <<>>
  \/ rest = <<"/">>
  \/ rest = <<"#">>
  \/ Len(rest) = 2 /\ rest[1] = "#" /\ IsDot(rest[2])

\* Length of the longest run of identifier characters at the start of s.
RECURSIVE IdentRun(_)
IdentRun(s) ==
  IF s # <<>> /\ Head(s) \in IdentChars THEN 1 + IdentRun(Tail(s)) ELSE 0

\* GITHUB_REPO_REGEX with its two capture groups; Null when there is no match.
parseRepoUrl(url) ==
  IF url = <<>> \/ Head(url) # GITHUB_PREFIX THEN Null
  ELSE
    LET afterHost == Tail(url)
        n == IdentRun(afterHost)
        afterOwner == SubSeq(afterHost, n + 1, Len(afterHost))
    IN
      IF n = 0 \/ afterOwner = <<>> \/ Head(afterOwner) # "/" THEN Null
      ELSE
        LET afterSlash == Tail(afterOwner)
            m == IdentRun(afterSlash)
            rest == SubSeq(afterSlash, m + 1, Len(afterSlash))
        IN
          IF m = 0 \/ ~MatchesSuffix(rest) THEN Null
          ELSE [t |-> "obj",
                owner |-> SubSeq(afterHost, 1, n),
                repo |-> SubSeq(afterSlash, 1, m)]

\* ------------------------------------------------------------------------
\* Exceptions: the result of an expression that may throw
\* ------------------------------------------------------------------------

Ok(v) == [ok |-> TRUE, v |-> v]

Throw == [ok |-> FALSE]

\* A failed expression together with the exception it threw.
ThrowE(e) == [ok |-> FALSE, e |-> e]

\* The TypeError of a method call on a value that has no such method.
TypeError == [name |-> "TypeError", message |-> "trim is not a function"]

\* The SyntaxError of JSON.parse.
SyntaxError == [name |-> "SyntaxError", message |-> "Unexpected token in JSON"]

\* v.trim(): a TypeError on anything that is not a string
CallTrim(v) == IF IsStr(v) THEN Ok(Trim(v.v)) ELSE Throw

\* ------------------------------------------------------------------------
\* Narrative generator: the reply of the generative service
\* ------------------------------------------------------------------------

\* keyof GeneratedSections
SectionKeys == {"description", "features", "installation", "usage"}

Obj(f) == [t |-> "obj", f |-> f]

\* parsed.k: a TypeError on null and undefined, undefined when k is missing
\* or when v is a primitive or an array.
GetProp(v, k) ==
  IF IsNullish(v) THEN Throw
  ELSE IF v.t = "obj" /\ k \in DOMAIN v.f THEN Ok(v.f[k])
  ELSE Ok(Undefined)

\* The generated sections {} (every key reads undefined).
NoSections == [k \in SectionKeys |-> Undefined]

\* The text payload of a reply: empty, not JSON, or a JSON document.
EmptyText == [t |-> "text", src |-> "empty"]

GarbageText == [t |-> "text", src |-> "garbage"]

JsonText(doc) == [t |-> "text", src |-> "json", doc |-> doc]

\* JSON.parse: a SyntaxError on the empty string and on text that is not JSON.
JsonParse(text) == IF text.src = "json" THEN Ok(text.doc) ELSE Throw

\* callGemini, from the received text to its result: the try block that
\* parses the text and picks the four fields; any exception in it gives {}.
ParseSections(text) ==
  LET parsed == JsonParse(Coalesce(text, EmptyText))
  IN
    IF ~parsed.ok \/ IsNullish(parsed.v) THEN NoSections
    ELSE
      [k \in SectionKeys |->
         IF k = "features"
         THEN (IF GetProp(parsed.v, k).v.t = "arr"
               THEN GetProp(parsed.v, k).v ELSE Undefined)
         ELSE GetProp(parsed.v, k).v]

\* callGemini after the response has arrived: throws on a transport error,
\* on a non-success status and on a body that is not JSON.
callGeminiResult(reply) ==
  IF reply.kind = "ok" THEN Ok(ParseSections(reply.text)) ELSE Throw

\* ------------------------------------------------------------------------
\* Document assembler
\* ------------------------------------------------------------------------

H_TITLE == "# "

H_DESCRIPTION == "## Description"

H_FEATURES == "## Features"

H_INSTALLATION == "## Installation Guide"

H_USAGE == "## Usage"

H_TECH == "## Tech Stack"

H_STRUCTURE == "## Project Structure"

H_LICENSE == "## License Information"

BULLET == "- "

\* The section headings buildReadme emits, in its order.
Headings ==
  <<H_TITLE, H_DESCRIPTION, H_FEATURES, H_INSTALLATION, H_USAGE, H_TECH,
    H_STRUCTURE, H_LICENSE>>

\* (generated.features ?? []).map((s) => s.trim()): throws on an element
\* that is not a string.
RECURSIVE MapTrim(_)
MapTrim(a) ==
  IF a = <<>> THEN Ok(<<>>)
  ELSE
    LET h == CallTrim(Head(a))
        r == MapTrim(Tail(a))
    IN IF h.ok /\ r.ok THEN Ok(<<h.v>> \o r.v) ELSE Throw

\* .filter(Boolean) on a list of strings
RECURSIVE FilterNonEmpty(_)
FilterNonEmpty(a) ==
  IF a = <<>> THEN <<>>
  ELSE (IF Head(a) # <<>> THEN <<Head(a)>> ELSE <<>>) \o FilterNonEmpty(Tail(a))

\* techStack.split(/,\s*/): cur is the piece being read.
RECURSIVE SplitComma(_, _)
SplitComma(s, cur) ==
  IF s = <<>> THEN <<cur>>
  ELSE IF Head(s) = "," THEN <<cur>> \o SplitComma(TrimStart(Tail(s)), <<>>)
  ELSE SplitComma(Tail(s), Append(cur, Head(s)))

\* .map((x) => prefix + x)
RECURSIVE Prefixed(_, _)
Prefixed(prefix, a) ==
  IF a = <<>> THEN <<>>
  ELSE <<<<prefix>> \o Head(a)>> \o Prefixed(prefix, Tail(a))

\* InstallationPart without the test for a fence that is already there.
InstallationPartAlwaysFenced(installation) ==
  <<FENCE, "bash", NL>> \o installation \o <<NL, FENCE>>

\* The installation part: fenced as bash unless it holds a fence already.
InstallationPart(installation) ==
  IF Includes(installation, FENCE) THEN installation
  ELSE <<FENCE, "bash", NL>> \o installation \o <<NL, FENCE>>

\* The usage part: fenced unless it holds a fence or is the placeholder.
UsagePart(usage) ==
  IF Includes(usage, FENCE) THEN usage
  ELSE IF usage # <<NOT_SPECIFIED>> THEN <<FENCE, NL>> \o usage \o <<NL, FENCE>>
  ELSE usage

\* The Tech Stack part: the languages joined with ", ", split again at
\* commas, one bullet per piece.
TechStackPart(languages) ==
  LET techStack ==
        IF Len(languages) # 0 THEN Join(languages, <<",", WS>>)
        ELSE <<NOT_SPECIFIED>>
  IN Join(Prefixed(BULLET, SplitComma(techStack, <<>>)), <<NL>>)

\* The Project Structure part.
StructurePart(tree) ==
  LET structureLines == IF Len(tree) # 0 THEN tree ELSE <<<<NOT_SPECIFIED>>>>
  IN
    IF Len(structureLines) # 0 /\ structureLines[1] # <<NOT_SPECIFIED>>
    THEN <<FENCE, NL>> \o Join(structureLines, <<NL>>) \o <<NL, FENCE>>
    ELSE <<NOT_SPECIFIED>>

\* The description of the document:
\* (generated.description ?? meta.description ?? "Not specified.").trim()
DescriptionOf(meta, generated) ==
  CallTrim(Coalesce(generated["description"],
                    Coalesce(meta.description, Str(<<NOT_SPECIFIED>>))))

\* buildReadme: the document, or the exception it throws.
buildReadme(meta, generated) ==
  LET title == OrElse(meta.name, Str(meta.owner \o <<"/">> \o meta.repo)).v
      description == DescriptionOf(meta, generated)
      trimmed == MapTrim(Coalesce(generated["features"], Arr(<<>>)).v)
      installation ==
        CallTrim(Coalesce(generated["installation"], Str(<<NOT_SPECIFIED>>)))
      usage == CallTrim(Coalesce(generated["usage"], Str(<<NOT_SPECIFIED>>)))
      licenseText == Coalesce(meta.license, Str(<<NOT_SPECIFIED>>)).v
  IN
    IF ~(description.ok /\ trimmed.ok /\ installation.ok /\ usage.ok) THEN Throw
    ELSE
      LET featuresArr == FilterNonEmpty(trimmed.v)
          features ==
            IF Len(featuresArr) # 0 THEN featuresArr ELSE <<<<NOT_SPECIFIED>>>>
          parts ==
            <<<<H_TITLE>> \o title, <<>>,
              <<H_DESCRIPTION>>, description.v, <<>>,
              <<H_FEATURES>>>>
            \o Prefixed(BULLET, features)
            \o <<<<>>,
                 <<H_INSTALLATION>>, InstallationPart(installation.v), <<>>,
                 <<H_USAGE>>, UsagePart(usage.v), <<>>,
                 <<H_TECH>>, TechStackPart(meta.languages), <<>>,
                 <<H_STRUCTURE>>, StructurePart(meta.tree), <<>>,
                 <<H_LICENSE>>, licenseText, <<>>>>
      IN Ok(Join(parts, <<NL>>))

\* ------------------------------------------------------------------------
\* Metadata fetcher
\* ------------------------------------------------------------------------

\* .slice(0, 500) of the tree
TREE_CAP == 500

\* meta.tree.slice(0, 120) of the prompt
PROMPT_TREE_CAP == 120

\* fetchJson without its res.ok test: the body of an error response is
\* returned like any other.
fetchJsonNoStatusCheck(res) ==
  IF res.kind \in {"ok", "status"} THEN Ok(res.data) ELSE Throw

\* fetchJson once the response has arrived: throws when fetch rejected, when
\* the status is not a success and when the body is not JSON.
fetchJson(res) == IF res.kind = "ok" THEN Ok(res.data) ELSE Throw

\* v?.k
OptProp(v, k) == IF IsNullish(v) THEN Undefined ELSE GetProp(v, k).v

\* .filter((n) => n.type === "blob" || n.type === "tree").map((n) => n.path)
\* TreePaths without the filter on the type of an entry.
TreePathsUnfiltered(entries) == [i \in 1..Len(entries) |-> entries[i].path]

\* (the list is halved at each step, which keeps the evaluation shallow on
\* lists of several hundred entries)
RECURSIVE TreePaths(_)
TreePaths(entries) ==
  IF entries = <<>> THEN <<>>
  ELSE IF Len(entries) = 1
  THEN (IF entries[1].type \in {"blob", "tree"}
        THEN <<entries[1].path>> ELSE <<>>)
  ELSE LET h == Len(entries) \div 2
       IN TreePaths(SubSeq(entries, 1, h))
            \o TreePaths(SubSeq(entries, h + 1, Len(entries)))

\* Object.keys of the language map, which is kept as the list of its keys in
\* insertion order.
ObjectKeys(map) == map.v

\* The record fetchRepoMetadata returns, from the three bodies it received.
\* langsData is null or a language map; treeData.tree is undefined or a list
\* of entries.
BuildMetadata(owner, repo, repoData, langsData, treeData) ==
  LET lic == OptProp(repoData, "license")
  IN
    [owner |-> owner,
     repo |-> repo,
     name |-> Coalesce(GetProp(repoData, "name").v, Str(repo)),
     description |-> Coalesce(GetProp(repoData, "description").v, Null),
     languages |-> ObjectKeys(Coalesce(langsData, Arr(<<>>))),
     license |-> Coalesce(OptProp(lic, "spdx_id"),
                          Coalesce(OptProp(lic, "name"), Null)),
     defaultBranch |-> GetProp(repoData, "default_branch").v,
     homepage |-> OrElse(GetProp(repoData, "homepage").v, Null),
     topics |-> OrElse(GetProp(repoData, "topics").v, Arr(<<>>)).v,
     tree |-> Take(TreePaths(OrElse(treeData.tree, Arr(<<>>)).v), TREE_CAP)]

\* ------------------------------------------------------------------------
\* Orchestrator: the pure parts of generateReadmeRoute
\* ------------------------------------------------------------------------

\* ErrorResponse without the call of status(): res.json({ error, code })
\* answers with the default status 200.
ErrorResponseNoStatus(status, error, code) ==
  [status |-> 200, body |-> [error |-> error, code |-> code]]

\* res.status(status).json({ error, code })
ErrorResponse(status, error, code) ==
  [status |-> status, body |-> [error |-> error, code |-> code]]

\* No response sent yet.
NoResponse == [status |-> 0]

\* body?.repoUrl?.trim(): undefined, the trimmed string, or a TypeError when
\* repoUrl is not a string.
RepoUrlOf(body) ==
  LET raw == OptProp(body, "repoUrl")
  IN IF IsNullish(raw) THEN Ok(Undefined)
     ELSE IF IsStr(raw) THEN Ok(Str(Trim(raw.v))) ELSE Throw

\* EarlyExit with the credential checked first, before the reference is
\* looked at.
EarlyExitTokenFirst(repoUrl, githubToken) ==
  IF ~Truthy(githubToken)
  THEN ErrorResponse(500, "Server missing GITHUB_TOKEN environment variable.",
                     "MISSING_GITHUB_TOKEN")
  ELSE IF ~Truthy(repoUrl)
  THEN ErrorResponse(400, "Repository URL is required.", "MISSING_REPO_URL")
  ELSE IF parseRepoUrl(repoUrl.v) = Null
  THEN ErrorResponse(400,
                     "Invalid GitHub repository URL. Expected https://github.com/<owner>/<repo>",
                     "INVALID_REPO_URL")
  ELSE NoResponse

\* EarlyExit with the credential compared with undefined only, so that an
\* empty GITHUB_TOKEN passes.
EarlyExitUndefinedOnly(repoUrl, githubToken) ==
  IF ~Truthy(repoUrl)
  THEN ErrorResponse(400, "Repository URL is required.", "MISSING_REPO_URL")
  ELSE IF parseRepoUrl(repoUrl.v) = Null
  THEN ErrorResponse(400,
                     "Invalid GitHub repository URL. Expected https://github.com/<owner>/<repo>",
                     "INVALID_REPO_URL")
  ELSE IF githubToken = Undefined
  THEN ErrorResponse(500, "Server missing GITHUB_TOKEN environment variable.",
                     "MISSING_GITHUB_TOKEN")
  ELSE NoResponse

\* The checks made before any upstream call, in their order: the response
\* of the first that fails, or NoResponse.
EarlyExit(repoUrl, githubToken) ==
  IF ~Truthy(repoUrl)
  THEN ErrorResponse(400, "Repository URL is required.", "MISSING_REPO_URL")
  ELSE IF parseRepoUrl(repoUrl.v) = Null
  THEN ErrorResponse(400,
                     "Invalid GitHub repository URL. Expected https://github.com/<owner>/<repo>",
                     "INVALID_REPO_URL")
  ELSE IF ~Truthy(githubToken)
  THEN ErrorResponse(500, "Server missing GITHUB_TOKEN environment variable.",
                     "MISSING_GITHUB_TOKEN")
  ELSE NoResponse

MissingGeminiKey ==
  [code |-> "MISSING_GEMINI_API_KEY",
   message |-> "Server missing GEMINI_API_KEY; generated content may be limited."]

\* The entry pushed by the catch around callGemini (the message of the
\* exception follows the prefix and is left out here).
GeminiApiError == [code |-> "GEMINI_API_ERROR", message |-> "Gemini API error"]

\* InitialErrors with the key compared with undefined only, so that an empty
\* GEMINI_API_KEY is not reported.
InitialErrorsUndefinedOnly(geminiKey) ==
  IF geminiKey = Undefined THEN <<MissingGeminiKey>> ELSE <<>>

\* The errors list after the credential checks.
InitialErrors(geminiKey) ==
  IF ~Truthy(geminiKey) THEN <<MissingGeminiKey>> ELSE <<>>

\* ShouldCallGemini without its test: the generative service is called
\* whether or not there is a key.
ShouldCallGeminiAlways(geminiKey) == TRUE

\* if (geminiKey) around the generative call
ShouldCallGemini(geminiKey) == Truthy(geminiKey)

\* The response of the catch around fetchRepoMetadata; the message of the
\* exception, cut to 500 characters, follows the prefix and is left out here.
GithubApiError == ErrorResponse(502, "GitHub API error", "GITHUB_API_ERROR")

InternalError == ErrorResponse(500, "Unexpected server error.", "INTERNAL_ERROR")

\* trim().length < 5 of needDescription
MIN_DESCRIPTION_LEN == 5

\* needDescription
NeedDescription(meta) ==
  \/ ~Truthy(meta.description)
  \/ StrLen(Trim(meta.description.v)) < MIN_DESCRIPTION_LEN

\* The generated sections after the description back-fill.
BackFill(meta, generated) ==
  IF ~Truthy(generated["description"]) /\ NeedDescription(meta)
     /\ Truthy(meta.description)
  THEN [generated EXCEPT !["description"] = meta.description]
  ELSE generated

\* filled: the keys marked true.
FilledOf(generated) ==
  [k \in {x \in SectionKeys : Truthy(generated[x])} |-> TRUE]

\* errors: errors.length ? errors : undefined
ErrorsField(errors) == IF Len(errors) # 0 THEN Arr(errors) ELSE Undefined

\* res.json(payload): JSON.stringify leaves out a key whose value is
\* undefined.
SendJson(payload) ==
  [status |-> 200,
   body |-> IF payload.errors = Undefined
            THEN [readme |-> payload.readme,
                  fileName |-> payload.fileName,
                  metadata |-> payload.metadata,
                  filledWithGemini |-> payload.filledWithGemini]
            ELSE [readme |-> payload.readme,
                  fileName |-> payload.fileName,
                  metadata |-> payload.metadata,
                  filledWithGemini |-> payload.filledWithGemini,
                  errors |-> payload.errors.v]]

\* buildReadme throws on the generated sections as back-filled.
RespondThrows(meta, generated0) ==
  ~buildReadme(meta, BackFill(meta, generated0)).ok

\* The route from the back-fill to the response; an exception thrown by
\* buildReadme reaches the outer catch.
Respond(meta, generated0, errors) ==
  LET generated == BackFill(meta, generated0)
      readme == buildReadme(meta, generated)
  IN
    IF ~readme.ok THEN InternalError
    ELSE SendJson([readme |-> readme.v,
                   fileName |-> meta.repo \o <<"-README.md">>,
                   metadata |-> meta,
                   filledWithGemini |-> FilledOf(generated),
                   errors |-> ErrorsField(errors)])

\* ------------------------------------------------------------------------
\* Inputs: what a client, the environment and the two services can send
\* ------------------------------------------------------------------------

\* Values of an environment variable: unset, empty, set.
EnvSamples == {Undefined, Str(<<>>), Str(<<"k">>)}

\* Raw repoUrl strings: empty, blank, not a URL, a reference (bare and
\* padded), and references with something missing or something added.
UrlSamples ==
  {<<>>, <<WS>>, <<"x">>,
   <<GITHUB_PREFIX, "a", "/", "b">>,
   <<WS, GITHUB_PREFIX, "a", "/", "b", WS>>,
   <<GITHUB_PREFIX, "a">>,
   <<GITHUB_PREFIX, "a", "/", "b", "/", "a">>,
   <<GITHUB_PREFIX, "a", "/", "b", "#", "x", "x">>,
   <<"x", GITHUB_PREFIX, "a", "/", "b">>}

\* Request bodies: none, without repoUrl, with a repoUrl that is no string,
\* with a string.
BodySamples ==
  {Undefined, Obj(<<>>), Obj("repoUrl" :> Num(5))}
    \cup {Obj("repoUrl" :> Str(u)) : u \in UrlSamples}

\* A response that makes fetch or fetchJson throw: fetch rejected, a
\* non-success status (with the provider's error body), a body that is not
\* JSON.
FailedResponses ==
  {[kind |-> "reject"],
   [kind |-> "status", data |-> Obj("message" :> Str(<<"x">>))],
   [kind |-> "badjson"]}

OkResponse(data) == [kind |-> "ok", data |-> data]

\* Repository descriptions: none (the provider sends null), short, long.
DescriptionSamples == {Null, Str(<<"x">>), Str(<<"A widget.">>)}

\* The license object: none, with an identifier, with a name only.
LicenseSamples ==
  {Null, Obj("spdx_id" :> Str(<<"x">>)),
   Obj("spdx_id" :> Null @@ "name" :> Str(<<"x">>))}

RepoDataSamples ==
  {Obj("name" :> n @@ "description" :> d @@ "license" :> l
         @@ "default_branch" :> Str(<<"m">>) @@ "homepage" :> Str(<<>>)) :
     n \in {Undefined, Str(<<"x">>)}, d \in DescriptionSamples,
     l \in LicenseSamples}

\* Keys of the language map: a plain name, and a name that holds a comma.
LanguageNames == {<<"x">>, <<"x", ",", "y">>}

\* Language maps: null, or at most MaxList distinct keys.
LangsDataSamples ==
  {Null} \cup
  {Arr(ks) : ks \in {s \in SeqsUpTo(LanguageNames, MaxList) :
                        \A i, j \in 1..Len(s) : s[i] = s[j] => i = j}}

TreeEntrySamples == [path : {<<"a">>}, type : {"blob", "tree", "commit"}]

TreeDataSamples ==
  {[tree |-> Undefined]} \cup
  {[tree |-> Arr(es)] : es \in SeqsUpTo(TreeEntrySamples, MaxList)}

\* Values of description, installation and usage in a reply: null, numbers
\* (falsy and truthy), and strings: empty, blank, plain, padded, fenced and
\* the placeholder itself.
FieldSamples ==
  {Null, Num(0), Num(5), Str(<<>>), Str(<<WS>>), Str(<<"x">>),
   Str(<<WS, "x">>), Str(<<FENCE, "x", FENCE>>), Str(<<NOT_SPECIFIED>>)}

FeatureSamples == {Str(<<>>), Str(<<"x">>), Str(<<WS, "x">>), Num(5)}

\* Values of features in a reply: null, not an array, arrays.
FeaturesSamples ==
  {Null, Str(<<"x">>)} \cup
  {Arr(a) : a \in SeqsUpTo(FeatureSamples, MaxList)}

\* Reply objects holding at most MaxKeys of the four keys.
ReplyObjects ==
  UNION {{f \in [K -> FieldSamples \cup FeaturesSamples] :
            \A k \in K : IF k = "features" THEN f[k] \in FeaturesSamples
                         ELSE f[k] \in FieldSamples} :
           K \in {K \in SUBSET SectionKeys : Cardinality(K) <= MaxKeys}}

\* JSON documents of a reply text: null, a number, an array, an object.
JsonDocs == {Null, Num(5), Arr(<<>>)} \cup {Obj(f) : f \in ReplyObjects}

\* data?.candidates?.[0]?.content?.parts?.[0]?.text
GeminiTexts == {Undefined, GarbageText} \cup {JsonText(d) : d \in JsonDocs}

GeminiReplies ==
  {[kind |-> "reject"], [kind |-> "status"], [kind |-> "badjson"]}
    \cup {[kind |-> "ok", text |-> x] : x \in GeminiTexts}

\* ------------------------------------------------------------------------
\* The page (client/pages/Index.tsx): its state and its validation
\* ------------------------------------------------------------------------

\* The useState calls of Index (lines 12-17): the initial state of the page.
UiInitial ==
  [repoUrl |-> <<>>,
   loading |-> FALSE,
   error |-> Null,
   readme |-> Str(<<>>),
   fileName |-> Str(<<"README.md">>),
   apiErrors |-> Arr(<<>>)]

\* validateUrl (lines 7-9): the trimmed text is the host prefix, an owner, a
\* slash, a name and at most a trailing slash.
validateUrl(url) ==
  LET t == Trim(url)
  IN
    /\ t # <<>>
    /\ Head(t) = GITHUB_PREFIX
    /\ LET afterHost == Tail(t)
           n == IdentRun(afterHost)
           afterOwner == SubSeq(afterHost, n + 1, Len(afterHost))
       IN
         /\ n > 0
         /\ afterOwner # <<>>
         /\ Head(afterOwner) = "/"
         /\ LET afterSlash == Tail(afterOwner)
                m == IdentRun(afterSlash)
                rest == SubSeq(afterSlash, m + 1, Len(afterSlash))
            IN m > 0 /\ rest \in {<<>>, <<"/">>}

\* ------------------------------------------------------------------------
\* One request through generateReadmeRoute
\* ------------------------------------------------------------------------

VARIABLES
  pc,           \* where the handler is: Start, an await, Done
  githubToken,  \* process.env.GITHUB_TOKEN
  geminiKey,    \* process.env.GEMINI_API_KEY
  repoUrl,      \* the trimmed repoUrl
  parsed,       \* the result of parseRepoUrl
  errors,       \* the non-fatal errors
  repoData,     \* fetchRepoMetadata: body of the repo-info call
  langsData,    \* fetchRepoMetadata: body of the languages call
  meta,         \* the metadata record
  reply,        \* callGemini: the response of the generative service
  generated,    \* the generated sections
  filled,       \* the filled flags
  response,     \* the response sent, NoResponse before
  calls,        \* the upstream calls issued so far
  responses,    \* how each hosting-provider call that returned ended
  caught,       \* the exception the outermost catch caught, if any
  treeData,     \* fetchRepoMetadata: body of the tree call
  ui            \* the state of the page (client/pages/Index.tsx)

vars ==
  <<pc, githubToken, geminiKey, repoUrl, parsed, errors, repoData, langsData,
    meta, reply, generated, filled, response, calls, responses, caught,
    treeData, ui>>

Init ==
  /\ pc = "Start"
  /\ githubToken \in EnvSamples
  /\ geminiKey \in EnvSamples
  /\ repoUrl = Undefined
  /\ parsed = Undefined
  /\ errors = <<>>
  /\ repoData = Undefined
  /\ langsData = Undefined
  /\ meta = Undefined
  /\ reply = Undefined
  /\ generated = NoSections
  /\ filled = <<>>
  /\ response = NoResponse
  /\ calls = <<>>
  /\ responses = <<>>
  /\ caught = Undefined
  /\ treeData = Undefined
  /\ ui = UiInitial

\* Lines 233-258: the body is read, the checks are made, and the repo-info
\* call is issued.
ReceiveRequest ==
  /\ pc = "Start"
  /\ \E body \in BodySamples :
       LET url == RepoUrlOf(body)
           early == EarlyExit(url.v, githubToken)
       IN
         IF ~url.ok
         THEN /\ response' = InternalError
              /\ caught' = TypeError
              /\ pc' = "Done"
              /\ UNCHANGED <<repoUrl, parsed, errors, calls>>
         ELSE /\ repoUrl' = url.v
              /\ UNCHANGED caught
              /\ parsed' = IF Truthy(url.v) THEN parseRepoUrl(url.v.v)
                           ELSE Undefined
              /\ IF early # NoResponse
                 THEN /\ response' = early
                      /\ pc' = "Done"
                      /\ UNCHANGED <<errors, calls>>
                 ELSE /\ errors' = InitialErrors(geminiKey)
                      /\ calls' = Append(calls, [api |-> "repo"])
                      /\ pc' = "AwaitRepoInfo"
                      /\ UNCHANGED response
  /\ UNCHANGED <<githubToken, geminiKey, repoData, langsData, meta, reply,
                 generated, filled, responses>>
  /\ UNCHANGED <<treeData, ui>>

\* Line 70: the repo-info call returns; on success the languages call is
\* issued, on failure the catch of the route answers.
RepoInfoReturns ==
  /\ pc = "AwaitRepoInfo"
  /\ \E res \in FailedResponses \cup {OkResponse(d) : d \in RepoDataSamples} :
       LET r == fetchJson(res)
       IN
         /\ responses' = Append(responses, res.kind)
         /\ IF r.ok
            THEN /\ repoData' = r.v
                 /\ calls' = Append(calls, [api |-> "languages"])
                 /\ pc' = "AwaitLangs"
                 /\ UNCHANGED response
            ELSE /\ response' = GithubApiError
                 /\ pc' = "Done"
                 /\ UNCHANGED <<repoData, calls>>
  /\ UNCHANGED <<githubToken, geminiKey, repoUrl, parsed, errors, langsData,
                 meta, reply, generated, filled, caught>>
  /\ UNCHANGED <<treeData, ui>>

\* Lines 71-78: the languages call returns; on success the tree call is
\* issued for the default branch.
LangsReturns ==
  /\ pc = "AwaitLangs"
  /\ \E res \in FailedResponses \cup {OkResponse(d) : d \in LangsDataSamples} :
       LET r == fetchJson(res)
       IN
         /\ responses' = Append(responses, res.kind)
         /\ IF r.ok
            THEN /\ langsData' = r.v
                 /\ calls' = Append(calls,
                                    [api |-> "tree",
                                     branch |-> GetProp(repoData, "default_branch").v])
                 /\ pc' = "AwaitTree"
                 /\ UNCHANGED <<response, repoData>>
            ELSE /\ response' = GithubApiError
                 /\ pc' = "Done"
                 /\ repoData' = Undefined
                 /\ UNCHANGED <<langsData, calls>>
  /\ UNCHANGED <<githubToken, geminiKey, repoUrl, parsed, errors, meta, reply,
                 generated, filled, caught>>
  /\ UNCHANGED <<treeData, ui>>

\* Lines 75-100 and 263-277: the tree call returns and fetchRepoMetadata ends
\* (its locals are gone); on success the metadata record is built, and the
\* generative service is called when its key is set; without a key the route
\* goes on to the response at once.
TreeReturns ==
  /\ pc = "AwaitTree"
  /\ \E res \in FailedResponses \cup {OkResponse(d) : d \in TreeDataSamples} :
       LET r == fetchJson(res)
           m == BuildMetadata(parsed.owner, parsed.repo, repoData, langsData, r.v)
       IN
         /\ responses' = Append(responses, res.kind)
         /\ IF ~r.ok
            THEN /\ response' = GithubApiError
                 /\ pc' = "Done"
                 /\ UNCHANGED <<meta, calls, generated, filled, caught>>
            ELSE /\ meta' = m
                 /\ IF ShouldCallGemini(geminiKey)
                    THEN /\ calls' = Append(calls,
                                            [api |-> "gemini",
                                             treePreview |-> Take(m.tree, PROMPT_TREE_CAP)])
                         /\ pc' = "AwaitGemini"
                         /\ UNCHANGED <<response, generated, filled, caught>>
                    ELSE /\ generated' = BackFill(m, NoSections)
                         /\ filled' = FilledOf(generated')
                         /\ response' = Respond(m, NoSections, errors)
                         /\ caught' = IF RespondThrows(m, NoSections)
                                      THEN TypeError ELSE caught
                         /\ pc' = "Done"
                         /\ UNCHANGED calls
  /\ repoData' = Undefined
  /\ langsData' = Undefined
  /\ UNCHANGED <<githubToken, geminiKey, repoUrl, parsed, errors, reply>>
  /\ UNCHANGED <<treeData, ui>>

\* Lines 202-228 and 272-302: the generative service returns; its sections
\* are merged or its failure is recorded, and the response is sent.
GeminiReturns ==
  /\ pc = "AwaitGemini"
  /\ \E res \in GeminiReplies :
       LET g == callGeminiResult(res)
           errs == IF g.ok THEN errors ELSE Append(errors, GeminiApiError)
           gen == IF g.ok THEN g.v ELSE NoSections
       IN
         /\ reply' = res
         /\ errors' = errs
         /\ generated' = BackFill(meta, gen)
         /\ filled' = FilledOf(generated')
         /\ response' = Respond(meta, gen, errs)
         /\ caught' = IF RespondThrows(meta, gen) THEN TypeError ELSE caught
         /\ pc' = "Done"
  /\ UNCHANGED <<githubToken, geminiKey, repoUrl, parsed, repoData, langsData,
                 meta, calls, responses>>
  /\ UNCHANGED <<treeData, ui>>

Next ==
  \/ ReceiveRequest
  \/ RepoInfoReturns
  \/ LangsReturns
  \/ TreeReturns
  \/ GeminiReturns

Spec == Init /\ [][Next]_vars

\* ------------------------------------------------------------------------
\* One request through the Netlify function (netlify/functions/api.ts)
\* ------------------------------------------------------------------------

\* e?.k of a caught value whose fields are strings; "" stands for undefined
\* (both are falsy, neither equals a code, neither includes "GITHUB").
Prop(e, k) == IF k \in DOMAIN e THEN e[k] ELSE ""

\* The error codes as strings the handler can search.
CodeTokens(code) ==
  CASE code = "MISSING_GITHUB_TOKEN" -> <<"MISSING_", "GITHUB", "_TOKEN">>
    [] code = "GITHUB_API_ERROR" -> <<"GITHUB", "_API_ERROR">>
    [] code = "" -> <<>>
    [] OTHER -> <<code>>

\* The catch of the handler (lines 23-26): the status from the code of the
\* caught value, the message from its error or message.
handlerCatch(e) ==
  LET code == Prop(e, "code")
      status == IF code = "INVALID_REPO_URL" THEN 400
                ELSE IF Includes(CodeTokens(code), "GITHUB") THEN 502
                ELSE 500
      error == IF Prop(e, "error") # "" THEN Prop(e, "error")
               ELSE IF Prop(e, "message") # "" THEN Prop(e, "message")
               ELSE "Internal error"
  IN ErrorResponse(status, error, IF code # "" THEN code ELSE "INTERNAL_ERROR")

\* Lines 18-19: event.body ? JSON.parse(event.body) : {} and then
\* (body?.repoUrl || "").trim(); the trimmed string or the exception thrown.
handlerRepoUrl(eventBody) ==
  LET body == IF eventBody \in {Undefined, EmptyText} THEN Ok(Obj(<<>>))
              ELSE JsonParse(eventBody)
  IN
    IF ~body.ok THEN ThrowE(SyntaxError)
    ELSE
      LET raw == OrElse(OptProp(body.v, "repoUrl"), Str(<<>>))
      IN IF IsStr(raw) THEN Ok(Str(Trim(raw.v))) ELSE ThrowE(TypeError)

\* A metadata record and the envelope made of it, for a request that succeeds.
SampleMetadata(parsedUrl) ==
  BuildMetadata(parsedUrl.owner, parsedUrl.repo,
                Obj("default_branch" :> Str(<<"m">>)), Arr(<<<<"x">>>>),
                [tree |-> Arr(<<>>)])

\* performGenerate: what a call can end with. The reference and the
\* credential are checked as in the route and a fatal error is thrown as
\* its { error, code } object; after them the call ends with a provider
\* failure thrown the same way, with an unexpected exception, or with the
\* envelope.
performGenerateOutcomes(url, token, key) ==
  LET early == EarlyExit(url, token)
  IN
    IF early # NoResponse THEN {ThrowE(early.body)}
    ELSE {ThrowE(GithubApiError.body), ThrowE(TypeError),
          Ok(Respond(SampleMetadata(parseRepoUrl(url.v)), NoSections,
                     InitialErrors(key)).body)}

\* event.body of the function: none, empty, not JSON, a JSON document.
EventBodySamples ==
  {Undefined, EmptyText, GarbageText}
    \cup {JsonText(d) : d \in {Null, Num(5)} \cup (BodySamples \ {Undefined})}

HandlerInit ==
  /\ pc = "HandlerStart"
  /\ githubToken \in EnvSamples
  /\ geminiKey \in EnvSamples
  /\ repoUrl = Undefined
  /\ parsed = Undefined
  /\ errors = <<>>
  /\ repoData = Undefined
  /\ langsData = Undefined
  /\ meta = Undefined
  /\ reply = Undefined
  /\ generated = NoSections
  /\ filled = <<>>
  /\ response = NoResponse
  /\ calls = <<>>
  /\ responses = <<>>
  /\ caught = Undefined
  /\ treeData = Undefined
  /\ ui = UiInitial

\* Lines 16-21: the body is parsed, the repoUrl read and tested, and
\* performGenerate is called.
HandlerReceives ==
  /\ pc = "HandlerStart"
  /\ \E eventBody \in EventBodySamples :
       LET url == handlerRepoUrl(eventBody)
       IN
         IF ~url.ok
         THEN /\ caught' = url.e
              /\ response' = handlerCatch(url.e)
              /\ pc' = "Done"
              /\ UNCHANGED repoUrl
         ELSE /\ repoUrl' = url.v
              /\ UNCHANGED caught
              /\ IF ~Truthy(url.v)
                 THEN /\ response' = ErrorResponse(400, "Repository URL is required.",
                                                   "MISSING_REPO_URL")
                      /\ pc' = "Done"
                 ELSE /\ pc' = "AwaitGenerate"
                      /\ UNCHANGED response
  /\ UNCHANGED <<githubToken, geminiKey, parsed, errors, repoData, langsData,
                 meta, reply, generated, filled, calls, responses>>
  /\ UNCHANGED <<treeData, ui>>

\* Lines 21-26: performGenerate ends; its envelope is returned, or what it
\* threw is caught and reported.
PerformGenerateReturns ==
  /\ pc = "AwaitGenerate"
  /\ \E out \in performGenerateOutcomes(repoUrl, githubToken, geminiKey) :
       IF out.ok
       THEN /\ response' = [status |-> 200, body |-> out.v]
            /\ UNCHANGED caught
       ELSE /\ caught' = out.e
            /\ response' = handlerCatch(out.e)
  /\ pc' = "Done"
  /\ UNCHANGED <<githubToken, geminiKey, repoUrl, parsed, errors, repoData,
                 langsData, meta, reply, generated, filled, calls, responses>>
  /\ UNCHANGED <<treeData, ui>>

HandlerNext ==
  \/ HandlerReceives
  \/ PerformGenerateReturns

HandlerSpec == HandlerInit /\ [][HandlerNext]_vars

\* ------------------------------------------------------------------------
\* The path tree: from the body of the tree call to the prompt
\* (fetchRepoMetadata lines 75-100, callGemini lines 161-187)
\* ------------------------------------------------------------------------

\* How far the lengths of the tree bodies go around zero and around the two
\* caps.
MaxOver == 3

TreeLengths ==
  (0..MaxOver)
    \cup ((PROMPT_TREE_CAP - MaxOver)..(PROMPT_TREE_CAP + MaxOver))
    \cup ((TREE_CAP - MaxOver)..(TREE_CAP + MaxOver))

\* The type of the i-th entry of a tree body: files only; files,
\* directories and submodules ("commit") in turn; files and directories
\* with one submodule near the start.
TreePatterns == {"files", "thirds", "one"}

EntryType(pattern, i) ==
  CASE pattern = "files" -> "blob"
    [] pattern = "thirds" ->
         (IF i % 3 = 0 THEN "commit" ELSE IF i % 3 = 1 THEN "blob" ELSE "tree")
    [] OTHER ->
         (IF i = 2 THEN "commit" ELSE IF i % 2 = 0 THEN "tree" ELSE "blob")

\* Bodies of the tree call: no tree, or a list of entries with distinct
\* paths.
LongTreeSamples ==
  {[tree |-> Undefined]} \cup
  {[tree |-> Arr([i \in 1..n |->
                    [path |-> <<ToString(i)>>, type |-> EntryType(p, i)]])] :
     n \in TreeLengths, p \in TreePatterns}

\* The tree call has returned (line 78) for a repository a/b.
TreeInit ==
  /\ pc = "TreeReceived"
  /\ githubToken = Str(<<"k">>)
  /\ geminiKey = Str(<<"k">>)
  /\ repoUrl = Str(<<GITHUB_PREFIX, "a", "/", "b">>)
  /\ parsed = parseRepoUrl(repoUrl.v)
  /\ errors = <<>>
  /\ repoData = Obj("default_branch" :> Str(<<"m">>))
  /\ langsData = Null
  /\ treeData \in LongTreeSamples
  /\ ui = UiInitial
  /\ meta = Undefined
  /\ reply = Undefined
  /\ generated = NoSections
  /\ filled = <<>>
  /\ response = NoResponse
  /\ calls = <<[api |-> "repo"], [api |-> "languages"],
               [api |-> "tree", branch |-> Str(<<"m">>)]>>
  /\ responses = <<"ok", "ok", "ok">>
  /\ caught = Undefined

\* Lines 80-100: the record is built from the three bodies.  The body of
\* the tree call stays in treeData, for the record to be compared with.
NormalizeTree ==
  /\ pc = "TreeReceived"
  /\ meta' = BuildMetadata(parsed.owner, parsed.repo, repoData, langsData,
                           treeData)
  /\ pc' = "MetadataReady"
  /\ UNCHANGED <<githubToken, geminiKey, repoUrl, parsed, errors, repoData,
                 langsData, treeData, reply, generated, filled, response,
                 calls, responses, caught, ui>>

\* Lines 161-206: the prompt is built with its excerpt of the tree and the
\* generative service is called.
BuildPrompt ==
  /\ pc = "MetadataReady"
  /\ calls' = Append(calls, [api |-> "gemini",
                             treePreview |-> Take(meta.tree, PROMPT_TREE_CAP)])
  /\ pc' = "AwaitGemini"
  /\ UNCHANGED <<githubToken, geminiKey, repoUrl, parsed, errors, repoData,
                 langsData, treeData, meta, reply, generated, filled,
                 response, responses, caught, ui>>

TreeNext ==
  \/ NormalizeTree
  \/ BuildPrompt

TreeSpec == TreeInit /\ [][TreeNext]_vars

\* ------------------------------------------------------------------------
\* The page: submissions through onSubmit (client/pages/Index.tsx)
\* ------------------------------------------------------------------------

\* Texts of the input field: empty, not a URL, a reference, a reference with
\* a fragment (which the server accepts and validateUrl does not).
UiUrlSamples ==
  {<<>>, <<"x">>,
   <<GITHUB_PREFIX, "a", "/", "b">>,
   <<GITHUB_PREFIX, "a", "/", "b", "#">>}

\* canSubmit (line 19): the button is disabled when it is false.
canSubmit(u) == validateUrl(u.repoUrl) /\ ~u.loading

\* ClearedUi without setReadme(""): the document of the submission before
\* stays in the preview.
ClearedUiKeepsReadme(u) ==
  [u EXCEPT !.error = Null, !.apiErrors = Arr(<<>>)]

\* Lines 22-24: setError(null), setApiErrors([]), setReadme("").
ClearedUi(u) ==
  [u EXCEPT !.error = Null, !.apiErrors = Arr(<<>>), !.readme = Str(<<>>)]

\* Lines 53-57: the catch of onSubmit and its finally.
UiCatch(u, e) ==
  [u EXCEPT !.error = Str(<<IF Prop(e, "message") # "" THEN e.message
                            ELSE "Network error">>),
            !.loading = FALSE]

\* res.ok
ResOk(status) == status \in 200..299

\* Lines 38-43: bodyText ? JSON.parse(bodyText) : null, null when the parse
\* throws.
UiData(text) ==
  IF text = EmptyText \/ ~JsonParse(text).ok THEN Null ELSE JsonParse(text).v

\* ok.readme of line 50 throws: data is null.
UiThrows(status, text) == ResOk(status) /\ IsNullish(UiData(text))

\* Lines 44-57 on a response whose body text has arrived and whose data is
\* not null when the status is a success.
UiAfterText(u, status, text) ==
  LET data == UiData(text)
  IN
    IF ~ResOk(status)
    THEN [u EXCEPT !.error = OrElse(OptProp(data, "error"),
                                    Str(<<"Request failed">>)),
                   !.loading = FALSE]
    ELSE [u EXCEPT !.readme = GetProp(data, "readme").v,
                   !.fileName = OrElse(GetProp(data, "fileName").v,
                                       Str(<<"README.md">>)),
                   !.apiErrors = OrElse(GetProp(data, "errors").v, Arr(<<>>)),
                   !.loading = FALSE]

\* What fetch and res.text() reject with: an error with a message, one
\* without.
UiRejections ==
  {[name |-> "TypeError", message |-> "Failed to fetch"],
   [name |-> "Error", message |-> ""]}

UiStatuses == {200, 400, 502}

\* The document and the envelopes a server sends.
UiDocument == <<H_TITLE, "b", NL, H_DESCRIPTION>>

UiEnvelopes ==
  {Obj("readme" :> Str(UiDocument) @@ "fileName" :> Str(<<"b", "-README.md">>)),
   Obj("readme" :> Str(UiDocument) @@ "fileName" :> Str(<<>>)
         @@ "errors" :> Arr(<<MissingGeminiKey>>)),
   Obj(<<>>)}

\* The bodies of a fatal error: with a message, with an empty one.
UiErrorBodies ==
  {Obj("error" :> Str(<<"GitHub API error">>) @@ "code" :> Str(<<"GITHUB_API_ERROR">>)),
   Obj("error" :> Str(<<>>))}

\* Body texts: empty, not JSON, JSON.
UiBodyTexts ==
  {EmptyText, GarbageText}
    \cup {JsonText(d) : d \in {Null} \cup UiEnvelopes \cup UiErrorBodies}

UiInit ==
  /\ pc = "Idle"
  /\ githubToken = Undefined
  /\ geminiKey = Undefined
  /\ repoUrl = Undefined
  /\ parsed = Undefined
  /\ errors = <<>>
  /\ repoData = Undefined
  /\ langsData = Undefined
  /\ meta = Undefined
  /\ reply = Undefined
  /\ generated = NoSections
  /\ filled = <<>>
  /\ response = NoResponse
  /\ calls = <<>>
  /\ responses = <<>>
  /\ caught = Undefined
  /\ treeData = Undefined
  /\ ui = UiInitial

\* Line 103: the user edits the input field.
SetRepoUrl ==
  /\ \E u \in UiUrlSamples \ {ui.repoUrl} : ui' = [ui EXCEPT !.repoUrl = u]
  /\ UNCHANGED <<pc, githubToken, geminiKey, repoUrl, parsed, errors, repoData,
                 langsData, meta, reply, generated, filled, response, calls,
                 responses, caught, treeData>>

\* Lines 21-36 and 106: the button, enabled by canSubmit, is clicked and
\* onSubmit runs up to its fetch.  response and caught hold what this
\* submission receives and catches.
SubmitClicked ==
  /\ canSubmit(ui)
  /\ IF ~validateUrl(ui.repoUrl)
     THEN /\ ui' = [ClearedUi(ui) EXCEPT
                      !.error = Str(<<"Invalid GitHub repository URL.">>)]
          /\ UNCHANGED pc
     ELSE /\ ui' = [ClearedUi(ui) EXCEPT !.loading = TRUE]
          /\ pc' = "AwaitFetch"
  /\ response' = NoResponse
  /\ caught' = Undefined
  /\ UNCHANGED <<githubToken, geminiKey, repoUrl, parsed, errors, repoData,
                 langsData, meta, reply, generated, filled, calls, responses,
                 treeData>>

\* Lines 32-37: fetch settles; a rejection goes to the catch.
FetchSettles ==
  /\ pc = "AwaitFetch"
  /\ \/ \E e \in UiRejections :
          /\ caught' = e
          /\ ui' = UiCatch(ui, e)
          /\ pc' = "Idle"
          /\ UNCHANGED response
     \/ \E status \in UiStatuses :
          /\ response' = [status |-> status]
          /\ pc' = "AwaitText"
          /\ UNCHANGED <<ui, caught>>
  /\ UNCHANGED <<githubToken, geminiKey, repoUrl, parsed, errors, repoData,
                 langsData, meta, reply, generated, filled, calls, responses,
                 treeData>>

\* Lines 37-57: res.text() settles and onSubmit runs to its end.
TextSettles ==
  /\ pc = "AwaitText"
  /\ \/ \E e \in UiRejections :
          /\ caught' = e
          /\ ui' = UiCatch(ui, e)
          /\ UNCHANGED response
     \/ \E text \in UiBodyTexts :
          /\ response' = [status |-> response.status, body |-> text]
          /\ IF UiThrows(response.status, text)
             THEN /\ caught' = TypeError
                  /\ ui' = UiCatch(ui, TypeError)
             ELSE /\ ui' = UiAfterText(ui, response.status, text)
                  /\ UNCHANGED caught
  /\ pc' = "Idle"
  /\ UNCHANGED <<githubToken, geminiKey, repoUrl, parsed, errors, repoData,
                 langsData, meta, reply, generated, filled, calls, responses,
                 treeData>>

UiNext ==
  \/ SetRepoUrl
  \/ SubmitClicked
  \/ FetchSettles
  \/ TextSettles

\* fetch and res.text() settle: a request in flight is answered or fails.
UiSpec ==
  /\ UiInit
  /\ [][UiNext]_vars
  /\ WF_vars(FetchSettles)
  /\ WF_vars(TextSettles)

\* ------------------------------------------------------------------------
\* Reading a rendered document back
\* ------------------------------------------------------------------------

\* The lines of a document; cur is the line being read.
RECURSIVE SplitLines(_, _)
SplitLines(s, cur) ==
  IF s = <<>> THEN <<cur>>
  ELSE IF Head(s) = NL THEN <<cur>> \o SplitLines(Tail(s), <<>>)
  ELSE SplitLines(Tail(s), Append(cur, Head(s)))

HeadingSet == {Headings[i] : i \in 1..Len(Headings)}

IsHeadingLine(l) == l # <<>> /\ l[1] \in HeadingSet

\* The headings of a document, in order.
RECURSIVE HeadingsOfLines(_)
HeadingsOfLines(ls) ==
  IF ls = <<>> THEN <<>>
  ELSE (IF IsHeadingLine(Head(ls)) THEN <<Head(ls)[1]>> ELSE <<>>)
         \o HeadingsOfLines(Tail(ls))

HeadingsIn(doc) == HeadingsOfLines(SplitLines(doc, <<>>))

RECURSIVE DropBlankEnd(_)
DropBlankEnd(ls) ==
  IF ls # <<>> /\ ls[Len(ls)] = <<>> THEN DropBlankEnd(SubSeq(ls, 1, Len(ls) - 1))
  ELSE ls

\* The body of the section under heading h: the rest of the heading's line
\* for the title, otherwise the lines up to the next heading, without the
\* blank lines that close the section.
SectionBody(doc, h) ==
  LET ls == SplitLines(doc, <<>>)
      at == {i \in 1..Len(ls) : IsHeadingLine(ls[i]) /\ ls[i][1] = h}
  IN
    IF at = {} THEN <<>>
    ELSE
      LET i == CHOOSE x \in at : \A y \in at : x <= y
          after == {j \in (i + 1)..Len(ls) : IsHeadingLine(ls[j])}
          j == IF after = {} THEN Len(ls) + 1
               ELSE CHOOSE x \in after : \A y \in after : x <= y
      IN
        IF h = H_TITLE THEN Tail(ls[i])
        ELSE Join(DropBlankEnd(SubSeq(ls, i + 1, j - 1)), <<NL>>)

\* A body with something in it besides white space.
NonBlank(s) == Trim(s) # <<>>

\* ------------------------------------------------------------------------
\* What a state says about the request
\* ------------------------------------------------------------------------

Done == pc = "Done"

\* A success envelope has been sent.
Succeeded == response.status = 200

\* A fatal error with this code has been sent.
Failed(code) ==
  /\ Done
  /\ response.status # 200
  /\ response.body.code = code

Called(api) == \E i \in 1..Len(calls) : calls[i].api = api

\* The three provider calls have returned successfully.
MetadataFetched == responses = <<"ok", "ok", "ok">>

\* The generative service has answered, and its call failed or its reply
\* text is not valid JSON.
GeminiFailed ==
  /\ Done
  /\ Called("gemini")
  /\ \/ reply.kind # "ok"
     \/ Coalesce(reply.text, EmptyText).src # "json"

\* The narrative sections the generator produced for this request.
Narrative ==
  IF Done /\ Called("gemini") /\ reply.kind = "ok"
  THEN ParseSections(reply.text) ELSE NoSections

\* The codes in the errors list of the envelope.
EnvelopeCodes ==
  IF "errors" \in DOMAIN response.body
  THEN {response.body.errors[i].code : i \in 1..Len(response.body.errors)}
  ELSE {}

\* The non-fatal errors that occurred: a missing key, a failed or unparseable
\* generation.
OccurredCodes ==
  (IF ~Truthy(geminiKey) THEN {"MISSING_GEMINI_API_KEY"} ELSE {})
    \cup (IF GeminiFailed THEN {"GEMINI_API_ERROR"} ELSE {})

IsBlankField(v) == IsNullish(v) \/ (IsStr(v) /\ Trim(v.v) = <<>>)

IsBlankList(v) ==
  \/ IsNullish(v)
  \/ v.t = "arr" /\ \A i \in 1..Len(v.v) : IsBlankField(v.v[i])

NonEmptyStr(v) == IsStr(v) /\ Trim(v.v) # <<>>

\* ------------------------------------------------------------------------
\* Claims
\* ------------------------------------------------------------------------

\* C1: when the generative call fails (transport error, non-success status)
\* or its reply text is not valid JSON, the request still ends with a
\* complete document and the errors list of the response holds an entry
\* with code GEMINI_API_ERROR.
C1_PartialFailureTolerance ==
  GeminiFailed =>
    /\ Succeeded
    /\ HeadingsIn(response.body.readme) = Headings
    /\ "GEMINI_API_ERROR" \in EnvelopeCodes

\* C2: once the metadata has been fetched, no reply of the generative
\* service makes the request fail: it ends with a document, never with a
\* fatal error.
C2_NarrativeNeverFails ==
  (Done /\ MetadataFetched) => (Succeeded /\ "readme" \in DOMAIN response.body)

\* C3: for each optional narrative field that is omitted or empty, the body
\* of its section in the document buildReadme renders is exactly
\* "Not specified." (one "- Not specified." bullet for Features).
C3_FallbackLaw ==
  Succeeded =>
    LET doc == response.body.readme
    IN
      /\ (IsBlankField(generated["description"]) /\ meta.description = Null)
           => SectionBody(doc, H_DESCRIPTION) = <<NOT_SPECIFIED>>
      /\ IsBlankList(generated["features"])
           => SectionBody(doc, H_FEATURES) = <<BULLET, NOT_SPECIFIED>>
      /\ IsBlankField(generated["installation"])
           => SectionBody(doc, H_INSTALLATION) = <<NOT_SPECIFIED>>
      /\ IsBlankField(generated["usage"])
           => SectionBody(doc, H_USAGE) = <<NOT_SPECIFIED>>

\* C4: the returned document holds exactly the eight sections, in the fixed
\* order, and the body of each is non-empty.
C4_EightNonEmptySections ==
  Succeeded =>
    LET doc == response.body.readme
    IN
      /\ HeadingsIn(doc) = Headings
      /\ \A i \in 1..Len(Headings) : NonBlank(SectionBody(doc, Headings[i]))

\* C5: the Description section is the narrative description when that is
\* non-empty, otherwise the metadata description when present, otherwise
\* "Not specified."; it is never rendered from an empty value.
C5_DescriptionPrecedence ==
  Succeeded =>
    SectionBody(response.body.readme, H_DESCRIPTION) =
      (IF NonEmptyStr(Narrative["description"])
       THEN Trim(Narrative["description"].v)
       ELSE IF NonEmptyStr(meta.description) THEN Trim(meta.description.v)
       ELSE <<NOT_SPECIFIED>>)

\* C6: a non-empty repoUrl that does not match the reference pattern ends
\* the request with status 400 and code INVALID_REPO_URL, and no upstream
\* call is issued in any state of that request.
C6_InvalidReferenceRejected ==
  (Truthy(repoUrl) /\ parseRepoUrl(repoUrl.v) = Null) =>
    /\ Done
    /\ response.status = 400
    /\ response.body.code = "INVALID_REPO_URL"
    /\ calls = <<>>

\* C6 witness: an invalid reference has been rejected, on a server that has
\* no hosting credential either.
C6_Witness ==
  /\ Failed("INVALID_REPO_URL")
  /\ Truthy(repoUrl)
  /\ parsed = Null
  /\ ~Truthy(githubToken)

\* C7: when a hosting-provider call returns a non-success status, the
\* request ends with status 502 and code GITHUB_API_ERROR, that call is the
\* last call issued (no later provider call, no generative call), and the
\* response holds no document and no metadata.
C7_MetadataAllOrNothing ==
  \A i \in 1..Len(responses) :
    responses[i] = "status" =>
      /\ Done
      /\ response.status = 502
      /\ response.body.code = "GITHUB_API_ERROR"
      /\ Len(calls) = i
      /\ ~Called("gemini")
      /\ DOMAIN response.body \cap {"readme", "metadata"} = {}
      /\ meta = Undefined

\* C7 witness: the third provider call (the tree) failed after two that
\* succeeded.
C7_Witness ==
  /\ responses = <<"ok", "ok", "status">>
  /\ Failed("GITHUB_API_ERROR")

\* C8 as stated: without a hosting credential every request with a
\* non-empty repoUrl ends with MISSING_GITHUB_TOKEN, valid reference or not,
\* before the reference is parsed and with no upstream call.
C8_CredentialCheckedBeforeParse ==
  (Done /\ ~Truthy(githubToken) /\ Truthy(repoUrl)) =>
    /\ response.body.code = "MISSING_GITHUB_TOKEN"
    /\ parsed = Undefined
    /\ calls = <<>>

\* C8 amended: the credential is checked after the reference is parsed.
\* Without a hosting credential a request with a valid reference ends with
\* status 500 and code MISSING_GITHUB_TOKEN, one with a non-empty invalid
\* repoUrl ends with INVALID_REPO_URL, and in both no upstream call is
\* issued.
C8_CredentialCheckedAfterParse ==
  (~Truthy(githubToken) /\ Truthy(repoUrl)) =>
    /\ Done
    /\ calls = <<>>
    /\ IF parsed = Null
       THEN response.status = 400 /\ response.body.code = "INVALID_REPO_URL"
       ELSE response.status = 500 /\ response.body.code = "MISSING_GITHUB_TOKEN"

\* C8 witness: a valid reference has been parsed on a server whose
\* GITHUB_TOKEN is set but empty, and the request ended for lack of it.
C8_Witness ==
  /\ Failed("MISSING_GITHUB_TOKEN")
  /\ githubToken = Str(<<>>)
  /\ parsed \notin {Null, Undefined}

\* C9: without a generative-service credential the generative service is
\* never called, and once the three provider calls have succeeded the
\* request ends with a complete document whose errors list holds exactly
\* one entry, with code MISSING_GEMINI_API_KEY.
C9_MissingGeminiKeyNonFatal ==
  ~Truthy(geminiKey) =>
    /\ ~Called("gemini")
    /\ pc # "AwaitGemini"
    /\ (Done /\ MetadataFetched) =>
         /\ Succeeded
         /\ HeadingsIn(response.body.readme) = Headings
         /\ "errors" \in DOMAIN response.body
         /\ Len(response.body.errors) = 1
         /\ response.body.errors[1].code = "MISSING_GEMINI_API_KEY"

\* C9 witness: a document has been sent by a server whose GEMINI_API_KEY is
\* set but empty.
C9_Witness ==
  /\ Succeeded
  /\ geminiKey = Str(<<>>)
  /\ MetadataFetched

\* C10: in a success envelope the errors field is absent exactly when no
\* non-fatal error occurred, and when present it is a non-empty list that
\* holds every non-fatal error that occurred.
C10_ErrorsFieldExact ==
  Succeeded =>
    /\ ("errors" \notin DOMAIN response.body) <=> (OccurredCodes = {})
    /\ "errors" \in DOMAIN response.body =>
         /\ Len(response.body.errors) >= 1
         /\ OccurredCodes \subseteq EnvelopeCodes

\* A value a reply supplies for a section that has something in it: a string
\* that is not blank, a list with an entry that is not blank.
SuppliedValue(v) ==
  \/ NonEmptyStr(v)
  \/ v.t = "arr" /\ \E i \in 1..Len(v.v) : NonEmptyStr(v.v[i])

\* C11: in every success envelope, filledWithGemini[k] is true only if the
\* generative service was called, its call succeeded, and its reply supplied
\* a non-empty value for section k; when the call was skipped or failed no
\* flag is true.
C11_FilledOnlyByGenerator ==
  Succeeded =>
    \A k \in DOMAIN response.body.filledWithGemini :
      response.body.filledWithGemini[k] =>
        /\ Called("gemini")
        /\ reply.kind = "ok"
        /\ SuppliedValue(Narrative[k])

\* The number of fence markers in a string.
RECURSIVE CountFences(_)
CountFences(s) ==
  IF s = <<>> THEN 0
  ELSE (IF Head(s) = FENCE THEN 1 ELSE 0) + CountFences(Tail(s))

\* body is value inside one fenced block: an opening fence line (with or
\* without a language tag), the value, a closing fence line.
IsOneFencedBlock(body, value) ==
  LET ls == SplitLines(body, <<>>)
  IN
    /\ Len(ls) >= 2
    /\ ls[1] # <<>> /\ ls[1][1] = FENCE
    /\ ls[Len(ls)] = <<FENCE>>
    /\ Join(SubSeq(ls, 2, Len(ls) - 1), <<NL>>) = value
    /\ CountFences(body) = 2

\* The body of section h when the document is assembled again with that
\* section's value replaced by v.
Reassembled(h, k, v) ==
  SectionBody(buildReadme(meta, [generated EXCEPT ![k] = Str(v)]).v, h)

\* C12: in the document buildReadme renders, an installation (resp. usage)
\* value that holds a fence marker is the section body as it is (trimmed),
\* with no fence added; a value without one is inside exactly one fenced
\* block; the Usage placeholder "Not specified." has no fence; and
\* assembling again with a section body as the value gives the same body.
C12_FenceRules ==
  Succeeded =>
    LET doc == response.body.readme
        inst == generated["installation"]
        usage == generated["usage"]
        instBody == SectionBody(doc, H_INSTALLATION)
        usageBody == SectionBody(doc, H_USAGE)
    IN
      /\ IsStr(inst) =>
           IF Includes(inst.v, FENCE)
           THEN instBody = Trim(inst.v) /\ CountFences(instBody) = CountFences(inst.v)
           ELSE IsOneFencedBlock(instBody, Trim(inst.v))
      /\ IsStr(usage) =>
           IF Includes(usage.v, FENCE)
           THEN usageBody = Trim(usage.v)
                  /\ CountFences(usageBody) = CountFences(usage.v)
           ELSE IF Trim(usage.v) = <<NOT_SPECIFIED>>
           THEN usageBody = <<NOT_SPECIFIED>>
           ELSE IsOneFencedBlock(usageBody, Trim(usage.v))
      /\ IsNullish(usage) => usageBody = <<NOT_SPECIFIED>>
      /\ Reassembled(H_INSTALLATION, "installation", instBody) = instBody
      /\ Reassembled(H_USAGE, "usage", usageBody) = usageBody

\* C12 witness: a document has been rendered from a reply whose installation
\* value came with its own fence.
C12_Witness ==
  /\ Succeeded
  /\ IsStr(generated["installation"])
  /\ Includes(generated["installation"].v, FENCE)
  /\ SectionBody(response.body.readme, H_INSTALLATION)
       = <<FENCE, "x", FENCE>>

\* A non-empty string over alphanumerics, ".", "_" and "-".
IsIdent(s) == s # <<>> /\ \A i \in 1..Len(s) : s[i] \in IdentChars

\* The owner/name pairs of url read as a reference: the host prefix, an
\* owner, a slash, a name, and then nothing, a trailing slash, or a fragment
\* ("#" and any text).
ReferencePairs(url) ==
  {[t |-> "obj", owner |-> SubSeq(url, 2, i), repo |-> SubSeq(url, i + 2, j)] :
     <<i, j>> \in
       {ij \in (2..Len(url)) \X (2..Len(url)) :
          /\ url[1] = GITHUB_PREFIX
          /\ ij[1] + 2 <= ij[2]
          /\ IsIdent(SubSeq(url, 2, ij[1]))
          /\ url[ij[1] + 1] = "/"
          /\ IsIdent(SubSeq(url, ij[1] + 2, ij[2]))
          /\ LET rest == SubSeq(url, ij[2] + 1, Len(url))
             IN rest = <<>> \/ rest = <<"/">> \/ rest[1] = "#"}}

\* C13: parseRepoUrl accepts every trimmed string made of the host prefix,
\* an owner, a slash and a name (both non-empty identifiers), optionally
\* followed by a trailing slash or by a fragment of any text, returns that
\* owner/name pair, and rejects every other string.
C13_ParserAcceptsReferences ==
  Truthy(repoUrl) =>
    IF ReferencePairs(repoUrl.v) = {} THEN parsed = Null
    ELSE parsed \in ReferencePairs(repoUrl.v)

ClientErrorCodes == {"MISSING_REPO_URL", "INVALID_REPO_URL"}

\* C14: in a fatal response MISSING_REPO_URL and INVALID_REPO_URL come with
\* status 400, GITHUB_API_ERROR with status 502, and every other code with a
\* server-error status that is not the gateway status: 502 is used for
\* upstream-provider errors only, never for MISSING_GITHUB_TOKEN.
C14_StatusClasses ==
  (Done /\ response.status # 200) =>
    LET code == response.body.code
        status == response.status
    IN
      /\ code \in ClientErrorCodes => status = 400
      /\ code = "GITHUB_API_ERROR" => status = 502
      /\ code \notin ClientErrorCodes \cup {"GITHUB_API_ERROR"}
           => status \in (500..599) \ {502}

\* An exception nothing in the pipeline throws on purpose: it carries no
\* error code.
IsUnexpected(e) == e # Undefined /\ "code" \notin DOMAIN e

\* The fixed messages of the two entry points for an unexpected error.
GenericMessages == {"Unexpected server error.", "Internal error"}

\* C16: when the outermost catch has caught an unexpected exception, the
\* response has status 500, code INTERNAL_ERROR and a fixed generic message
\* that is not the exception's own message.
C16_InternalErrorGeneric ==
  IsUnexpected(caught) =>
    /\ Done
    /\ response.status = 500
    /\ response.body.code = "INTERNAL_ERROR"
    /\ response.body.error \in GenericMessages
    /\ response.body.error # caught.message

\* The response is a fatal error: a message and a code, nothing else.
IsFatalResponse(r) ==
  /\ r.status \in 400..599
  /\ DOMAIN r.body = {"error", "code"}

\* The response is a success envelope: a complete document, its file name
\* and the metadata, and no error message or code.
IsEnvelope(r) ==
  /\ r.status = 200
  /\ {"readme", "fileName", "metadata", "filledWithGemini"} \subseteq DOMAIN r.body
  /\ DOMAIN r.body \cap {"error", "code"} = {}
  /\ HeadingsIn(r.body.readme) = Headings

\* A request has ended exactly when it has a response, and the response is a
\* fatal error or a success envelope, never a mix.
OneKindOfResponse ==
  /\ Done <=> response # NoResponse
  /\ Done => (IsFatalResponse(response) \/ IsEnvelope(response))
  /\ Done => ~(IsFatalResponse(response) /\ IsEnvelope(response))

\* C15: every request that ends has exactly one response, which is either a
\* fatal error (message and code, no document, file name or metadata) or a
\* success envelope (a complete document, no error code); and once a
\* response is sent the route takes no further step: no second response, no
\* document assembly after a fatal outcome.
C15_ExactlyOneResponse ==
  /\ []OneKindOfResponse
  /\ [][response = NoResponse]_vars

\* C15 witness: a request ended with a fatal error after the metadata fetch
\* had begun (the languages call failed).
C15_Witness ==
  /\ Done
  /\ IsFatalResponse(response)
  /\ response.body.code = "GITHUB_API_ERROR"
  /\ Len(calls) = 2

\* The smaller of two numbers.
Min(a, b) == IF a < b THEN a ELSE b

\* The entries the tree call returned.
ProviderEntries == IF treeData.tree = Undefined THEN <<>> ELSE treeData.tree.v

\* The positions of the provider's entries of file or directory type.
FileOrDirectoryAt ==
  {i \in 1..Len(ProviderEntries) : ProviderEntries[i].type \in {"blob", "tree"}}

\* The excerpt of the tree in the prompt of the generative call.
TreePreview == calls[Len(calls)].treePreview

\* C17: the path tree of the metadata record is the first min(n, 500) of the
\* provider's n entries of file or directory type, in provider order (its
\* k-th path is the path of the k-th such entry), never more than 500; and
\* the excerpt in the prompt is the first min(len, 120) entries of that
\* list.
C17_TreeCaps ==
  (pc \in {"MetadataReady", "AwaitGemini"}) =>
    LET entries == ProviderEntries
        at == FileOrDirectoryAt
    IN
      /\ Len(meta.tree) = Min(Cardinality(at), 500)
      /\ Len(meta.tree) <= 500
      /\ \A k \in 1..Len(meta.tree) :
           \E i \in at :
             /\ entries[i].path = meta.tree[k]
             /\ Cardinality({j \in at : j <= i}) = k
      /\ pc = "AwaitGemini" =>
           /\ Len(TreePreview) = Min(Len(meta.tree), 120)
           /\ \A k \in 1..Len(TreePreview) : TreePreview[k] = meta.tree[k]

\* C17 witness: the provider returned more than 500 entries of file or
\* directory type and one of another type, the record holds 500 paths and
\* the prompt 120.
C17_Witness ==
  /\ pc = "AwaitGemini"
  /\ Cardinality(FileOrDirectoryAt) > 500
  /\ Cardinality(FileOrDirectoryAt) < Len(ProviderEntries)
  /\ Len(meta.tree) = 500
  /\ Len(TreePreview) = 120

\* The upstream calls of one request, in the order the code issues them.
CallOrder == <<"repo", "languages", "tree", "gemini">>

\* C18: the calls issued so far are the first calls of the fixed order, each
\* at most once; the tree call is there only when the repo-info call has
\* returned successfully, the generative call only when the three provider
\* calls have; and after a provider call that failed no call is issued.
C18_CallOrdering ==
  /\ Len(calls) <= Len(CallOrder)
  /\ \A i \in 1..Len(calls) : calls[i].api = CallOrder[i]
  /\ \A i, j \in 1..Len(calls) : calls[i].api = calls[j].api => i = j
  /\ Called("tree") => (Len(responses) >= 1 /\ responses[1] = "ok")
  /\ Called("gemini") => responses = <<"ok", "ok", "ok">>
  /\ \A i \in 1..Len(responses) :
       responses[i] # "ok" => (Len(calls) = i /\ Len(responses) = i)

\* C18 witness: all four calls have been issued and the request has ended.
C18_Witness ==
  /\ Done
  /\ Len(calls) = 4
  /\ Called("gemini")
  /\ MetadataFetched

\* One bullet per name, in list order, each "- " and the name as it is.
BulletList(names) ==
  Join([i \in 1..Len(names) |-> <<BULLET>> \o names[i]], <<NL>>)

\* C19: in the returned document the Tech Stack section holds exactly one
\* bullet per language of the metadata, in list order, each "- " followed
\* by the name unchanged; for an empty list it is the one bullet
\* "- Not specified.".
C19_TechStackBullets ==
  Succeeded =>
    SectionBody(response.body.readme, H_TECH) =
      (IF response.body.metadata.languages = <<>>
       THEN <<BULLET, NOT_SPECIFIED>>
       ELSE BulletList(response.body.metadata.languages))

\* The codes of a list of non-fatal errors, in order.
CodesOf(list) == [i \in 1..Len(list) |-> list[i].code]

PairwiseDistinct(seq) ==
  \A i, j \in 1..Len(seq) : seq[i] = seq[j] => i = j

\* C20: in every state of a request the list of non-fatal errors holds at
\* most one entry (MISSING_GEMINI_API_KEY and GEMINI_API_ERROR never both),
\* and the codes of the errors list of a response are pairwise distinct.
C20_AtMostOneError ==
  /\ Len(errors) <= 1
  /\ PairwiseDistinct(CodesOf(errors))
  /\ (Succeeded /\ "errors" \in DOMAIN response.body) =>
       /\ Len(response.body.errors) = 1
       /\ PairwiseDistinct(CodesOf(response.body.errors))

\* C20 witness: a document has been sent with the one entry GEMINI_API_ERROR,
\* by a server that has a key.
C20_Witness ==
  /\ Succeeded
  /\ Truthy(geminiKey)
  /\ "errors" \in DOMAIN response.body
  /\ CodesOf(response.body.errors) = <<"GEMINI_API_ERROR">>

\* The last submission has run to its end.
SubmissionEnded == pc = "Idle" /\ (caught # Undefined \/ "body" \in DOMAIN response)

\* It failed: an exception reached the catch of onSubmit, or the response
\* was not OK.
SubmissionFailed ==
  /\ SubmissionEnded
  /\ (caught # Undefined \/ ~ResOk(response.status))

\* It succeeded: an OK response whose body was read without an exception.
SubmissionSucceeded ==
  /\ SubmissionEnded
  /\ caught = Undefined
  /\ ResOk(response.status)

\* The preview shows a document.
ShowsDocument == Truthy(ui.readme)

\* The page never shows a document together with an error; loading is true
\* exactly while a request is in flight; a failed submission leaves an
\* error and no document, a successful one leaves no error.
UiConsistent ==
  /\ ~(Truthy(ui.error) /\ ShowsDocument)
  /\ ui.loading <=> pc # "Idle"
  /\ SubmissionFailed => (Truthy(ui.error) /\ ~ShowsDocument /\ ~ui.loading)
  /\ SubmissionSucceeded => (ui.error = Null /\ ~ui.loading)

\* C21: every submission eventually leaves loading = false; after a
\* submission that fails the preview holds no document and error is set; a
\* document of an earlier submission is never shown together with the
\* error of a later one; and a successful submission leaves error unset.
C21_SubmissionSettles ==
  /\ []UiConsistent
  /\ (ui.loading ~> ~ui.loading)

\* C21 witness: a submission failed with a gateway error after an earlier
\* one had succeeded (the file name of its document is still there).
C21_Witness ==
  /\ SubmissionFailed
  /\ response.status = 502
  /\ ui.fileName = Str(<<"b", "-README.md">>)
  /\ Truthy(ui.error)
  /\ ~ShowsDocument

====
